---- MODULE Spec2Model ----
(***************************************************************************)
(* Model of app.py: the WMS tile downloader.                               *)
(*   download_tiles  - the resumable download run over the 3x3 grid, with  *)
(*                     its CSV ledger (header, append, resume position)    *)
(*   preview_tiles   - the preview of the 3x3 grid and its mosaic          *)
(*   get_last_xy_from_csv, get_tile_bounds, calculate_area - helpers       *)
(* The file system is the files of the two output directories and the      *)
(* rows of the ledger; a CSV row is a sequence of text fields.  The remote *)
(* service, the image codec and the geodesic library are inputs: each call *)
(* draws its outcome.                                                      *)
(***************************************************************************)
EXTENDS Integers, Sequences, FiniteSets, TLC

(***************************************************************************)
(* Bounds of the model.                                                    *)
(***************************************************************************)
MaxRuns == 3          \* download runs in one behaviour, at most
MaxPreviews == 2      \* preview calls in one behaviour
MaxRunsShort == 1     \* download runs in one behaviour of Spec and of SpecFaults
MaxOverlapRuns == 2   \* download runs in one behaviour of SpecDownload
MaxUnderWay == 2      \* download runs under way at the same time in SpecFresh
MaxInFlight == 2      \* calls of the two callbacks under way at the same time
MaxAnomalies == 1     \* non-nominal inputs and outcomes in one behaviour of Spec
MaxFaults == 1        \* the same in one behaviour of SpecDownload and of SpecFresh
MaxRunFaults == 2     \* the same in one behaviour of SpecFaults
MaxPreviewFaults == 2 \* the same in one behaviour of SpecPreview
ParseMax == 12        \* int() parses decimal text of magnitude up to this
MaxZoom == 3          \* zoom levels of the calls of get_tile_bounds alone
MaxTile == 2          \* tile column and row of these calls
MaxArea == 3          \* magnitude of the finite areas of the calls of calculate_area alone

(***************************************************************************)
(* Parameters of the calls (the values of the form fields).                *)
(***************************************************************************)
layer_name == "L"
crs == "EPSG:4326"
zoom == 5
image_format == [type |-> "image", subtype |-> "png"]
GoodBBox == <<"-160", "-80", "160", "80">>
BBoxInputs == {GoodBBox, <<"-160", "-80", "160">>, <<"-160", "x", "160", "80">>}
\* a number field holds a number, <<n>>, or nothing, <<>>
SizeInputs == {<<512>>, <<>>}

(***************************************************************************)
(* Text conversions: str() of an int, str() of a float with an integral    *)
(* value, int() and float() of a text.                                     *)
(***************************************************************************)
Digit(d) == CASE d = 0 -> "0" [] d = 1 -> "1" [] d = 2 -> "2" [] d = 3 -> "3"
              [] d = 4 -> "4" [] d = 5 -> "5" [] d = 6 -> "6" [] d = 7 -> "7"
              [] d = 8 -> "8" [] d = 9 -> "9"

RECURSIVE NatStr(_)
NatStr(n) == IF n < 10 THEN Digit(n) ELSE NatStr(n \div 10) \o Digit(n % 10)

IntStr(n) == IF n < 0 THEN "-" \o NatStr(-n) ELSE NatStr(n)

\* a float: not-a-number, an infinity (v is its sign) or a finite value v
NaN == [cls |-> "nan", v |-> 0]
Inf(s) == [cls |-> "inf", v |-> s]
Fin(n) == [cls |-> "fin", v |-> n]

FloatStr(f) == CASE f.cls = "nan" -> "nan"
                 [] f.cls = "inf" -> (IF f.v < 0 THEN "-inf" ELSE "inf")
                 [] f.cls = "fin" -> IntStr(f.v) \o ".0"

\* int(text): the value, or ValueError when the text is no decimal integer
ParseInt(s) ==
    IF \E n \in -ParseMax..ParseMax : IntStr(n) = s
    THEN [ok |-> TRUE, v |-> CHOOSE n \in -ParseMax..ParseMax : IntStr(n) = s]
    ELSE [ok |-> FALSE, v |-> 0]

\* float(text.strip()) for the texts of BBoxInputs
ParseFloat(s) ==
    CASE s = "-160" -> [ok |-> TRUE, v |-> -160]
      [] s = "-80" -> [ok |-> TRUE, v |-> -80]
      [] s = "160" -> [ok |-> TRUE, v |-> 160]
      [] s = "80" -> [ok |-> TRUE, v |-> 80]
      [] OTHER -> [ok |-> FALSE, v |-> 0]

\* the bounding-box field split at its commas: the four values, or the error
ParseBBox(bbox_str) ==
    IF \E k \in 1..Len(bbox_str) : ~ParseFloat(bbox_str[k]).ok
    THEN [ok |-> FALSE, vals |-> <<>>]
    ELSE IF Len(bbox_str) # 4
         THEN [ok |-> FALSE, vals |-> <<>>]
         ELSE [ok |-> TRUE, vals |-> [k \in 1..4 |-> ParseFloat(bbox_str[k]).v]]

(***************************************************************************)
(* get_tile_bounds.  Coordinates are exact for the extents of BBoxInputs:  *)
(* the extent divides evenly into 2^zoom tiles.                            *)
(***************************************************************************)
RECURSIVE Pow2(_)
Pow2(n) == IF n = 0 THEN 1 ELSE 2 * Pow2(n - 1)

\* rows counted from the lower edge of the extent
get_tile_bounds_rows_up(x, y, z, bounds) ==
    LET minx == bounds[1]
        miny == bounds[2]
        maxx == bounds[3]
        maxy == bounds[4]
        num_tiles == Pow2(z)
        tile_size_x == (maxx - minx) \div num_tiles
        tile_size_y == (maxy - miny) \div num_tiles
    IN  << minx + x * tile_size_x,
           miny + y * tile_size_y,
           minx + (x + 1) * tile_size_x,
           miny + (y + 1) * tile_size_y >>

get_tile_bounds(x, y, z, bounds) ==
    LET minx == bounds[1]
        miny == bounds[2]
        maxx == bounds[3]
        maxy == bounds[4]
        num_tiles == Pow2(z)
        tile_size_x == (maxx - minx) \div num_tiles
        tile_size_y == (maxy - miny) \div num_tiles
    IN  << minx + x * tile_size_x,
           maxy - (y + 1) * tile_size_y,
           minx + (x + 1) * tile_size_x,
           maxy - y * tile_size_y >>

(***************************************************************************)
(* calculate_area: the check of the area the geodesic polygon returned.    *)
(***************************************************************************)
AreaValues == {NaN, Inf(1), Fin(-1), Fin(0), Fin(1)}

isnan(f) == f.cls = "nan"

LeqZero(f) == CASE f.cls = "nan" -> FALSE
                [] f.cls = "inf" -> f.v < 0
                [] f.cls = "fin" -> f.v <= 0

calculate_area(area) ==
    IF isnan(area) \/ LeqZero(area)
    THEN [ok |-> FALSE, area |-> NaN]
    ELSE [ok |-> TRUE, area |-> area]

(***************************************************************************)
(* The ledger.                                                             *)
(***************************************************************************)
Header == <<"IMG_PATH", "LL_LAT", "LL_LON", "UL_LAT", "UL_LON", "UR_LAT",
            "UR_LON", "LR_LAT", "LR_LON", "ZOOM", "ROW", "COL", "SQ_KM_AREA">>

\* the text csv.writer writes for a row: the fields with commas between them
\* and the line end "\r\n" (no field of the ledger holds a comma or a quote)
RECURSIVE JoinFields(_)
JoinFields(row) ==
    IF row = <<>> THEN ""
    ELSE IF Len(row) = 1 THEN row[1]
    ELSE row[1] \o "," \o JoinFields(Tail(row))

RowLine(row) == JoinFields(row) \o "\r\n"

\* the fields csv.reader gives for the text of a line without its line end
RECURSIVE SplitFields(_)
SplitFields(text) ==
    IF \E k \in 1..Len(text) : SubSeq(text, k, k) = ","
    THEN LET k == CHOOSE n \in 1..Len(text) :
                      /\ SubSeq(text, n, n) = ","
                      /\ \A j \in 1..(n - 1) : SubSeq(text, j, j) # ","
         IN  <<SubSeq(text, 1, k - 1)>> \o SplitFields(SubSeq(text, k + 1, Len(text)))
    ELSE <<text>>

\* the row csv.reader gives for the end of a line, from some byte of it on:
\* no field when nothing but the line end is left
ParseLineEnd(text) ==
    LET body == IF Len(text) >= 2 /\ SubSeq(text, Len(text) - 1, Len(text)) = "\r\n"
                THEN SubSeq(text, 1, Len(text) - 2)
                ELSE SubSeq(text, 1, Len(text) - 1)
    IN  IF body = "" THEN <<>> ELSE SplitFields(body)

\* the rows csv.reader gives for the text of the rows without its first n bytes
RECURSIVE DropBytes(_, _)
DropBytes(rows, n) ==
    IF rows = <<>> \/ n = 0 THEN rows
    ELSE LET line == RowLine(Head(rows))
         IN  IF Len(line) <= n
             THEN DropBytes(Tail(rows), n - Len(line))
             ELSE <<ParseLineEnd(SubSeq(line, n + 1, Len(line)))>> \o Tail(rows)

\* the rows of a file after the text of row is written at offset 0 of it: the
\* text replaces the bytes it covers
WriteAtStart(rows, row) == <<row>> \o DropBytes(rows, Len(RowLine(row)))

\* a reader that takes a short last row for no row
get_last_xy_lenient(exists, rows) ==
    IF exists /\ Len(rows) > 1 /\ Len(rows[Len(rows)]) >= 12
    THEN LET last_row == rows[Len(rows)]
         IN  IF ~ParseInt(last_row[12]).ok \/ ~ParseInt(last_row[11]).ok
             THEN [err |-> "ValueError", x |-> 0, y |-> 0]
             ELSE [err |-> "none", x |-> ParseInt(last_row[12]).v,
                                   y |-> ParseInt(last_row[11]).v]
    ELSE [err |-> "none", x |-> 0, y |-> 0]

\* get_last_xy_from_csv: the position of the last row, or the error raised
get_last_xy_from_csv(exists, rows) ==
    IF exists /\ Len(rows) > 1
    THEN LET last_row == rows[Len(rows)]
         IN  IF Len(last_row) < 12
             THEN [err |-> "IndexError", x |-> 0, y |-> 0]
             ELSE IF ~ParseInt(last_row[12]).ok
             THEN [err |-> "ValueError", x |-> 0, y |-> 0]
             ELSE IF ~ParseInt(last_row[11]).ok
             THEN [err |-> "ValueError", x |-> 0, y |-> 0]
             ELSE [err |-> "none", x |-> ParseInt(last_row[12]).v,
                                   y |-> ParseInt(last_row[11]).v]
    ELSE [err |-> "none", x |-> 0, y |-> 0]

\* start_index with the two positions exchanged
StartIndexSwapped(last) == last.y * 3 + last.x + 1

\* start_index = last_x * 3 + last_y + 1
StartIndex(last) == last.x * 3 + last.y + 1

total_tiles == 9
num_preview_tiles == 3
center_x == 1
center_y == 1

\* the directories and file names
DatasetDir == "./datasets/" \o layer_name \o "_zoom_" \o IntStr(zoom) \o "_format_"
                \o image_format.type \o "/" \o image_format.subtype
                \o "_projection_" \o crs
PreviewDir == "./preview/" \o layer_name \o "_zoom_" \o IntStr(zoom) \o "_format_"
                \o image_format.subtype \o "_projection_" \o crs
file_ext == image_format.subtype
ImgPath(tile_x, tile_y) ==
    DatasetDir \o "/tile_" \o IntStr(tile_x) \o "_" \o IntStr(tile_y) \o "." \o file_ext
PreviewPath(tile_x, tile_y) ==
    PreviewDir \o "/tile_" \o IntStr(tile_x) \o "_" \o IntStr(tile_y) \o ".png"

\* a column that is the offset from the centre
TileXOffset(i) == (i \div 3) - 1

\* the position of loop index i
TileX(i) == center_x + ((i \div 3) - 1)
TileY(i) == center_y + ((i % 3) - 1)

\* an area field that spells out the missing area
AreaFieldNone(res) == IF res.ok THEN FloatStr(res.area) ELSE "None"

\* the area field of a row: the area, or nothing when the computation failed
AreaField(res) == IF res.ok THEN FloatStr(res.area) ELSE ""

\* int(width), int(height): TypeError when the field is empty
SizeOk(width, height) == width # <<>> /\ height # <<>>

\* a row that names its file with column and row exchanged
LedgerRowSwappedName(i, bounds, areaText) ==
    LET tile_x == TileX(i)
        tile_y == TileY(i)
        tile_bbox == get_tile_bounds(tile_x, tile_y, zoom, bounds)
    IN  << ImgPath(tile_y, tile_x),
           FloatStr(Fin(tile_bbox[2])), FloatStr(Fin(tile_bbox[1])),
           FloatStr(Fin(tile_bbox[4])), FloatStr(Fin(tile_bbox[1])),
           FloatStr(Fin(tile_bbox[4])), FloatStr(Fin(tile_bbox[3])),
           FloatStr(Fin(tile_bbox[2])), FloatStr(Fin(tile_bbox[3])),
           IntStr(zoom), IntStr(tile_y), IntStr(tile_x), areaText >>

\* the row written for loop index i; areaText is the text of the area field
LedgerRow(i, bounds, areaText) ==
    LET tile_x == TileX(i)
        tile_y == TileY(i)
        tile_bbox == get_tile_bounds(tile_x, tile_y, zoom, bounds)
    IN  << ImgPath(tile_x, tile_y),
           FloatStr(Fin(tile_bbox[2])), FloatStr(Fin(tile_bbox[1])),
           FloatStr(Fin(tile_bbox[4])), FloatStr(Fin(tile_bbox[1])),
           FloatStr(Fin(tile_bbox[4])), FloatStr(Fin(tile_bbox[3])),
           FloatStr(Fin(tile_bbox[2])), FloatStr(Fin(tile_bbox[3])),
           IntStr(zoom), IntStr(tile_y), IntStr(tile_x), areaText >>

(***************************************************************************)
(* State.  The calls of download_tiles (the runs) and of preview_tiles are *)
(* numbered as they start; each has its own locals.  The program holds no  *)
(* lock: calls share the file system and nothing else.                     *)
(***************************************************************************)
VARIABLES
    csv_exists,     \* the ledger file exists
    csv_rows,       \* the rows of the ledger file on disk
    csv_buf,        \* by run: rows written to its csv_file, not yet on disk
    dirs,           \* the output directories that exist
    files,          \* the image files that exist, by path
    d_pc,           \* download_tiles, by run: "idle", "create", "header", "resume",
                    \* "loop", "returned", "error", "crashed"
    d_i,            \* by run: the loop index i
    d_bounds,       \* by run: bounds
    d_result,       \* by run: the error of the run, "" when none
    d_contacted,    \* by run: the run has called WebMapService
    d_csv0,         \* by run: the ledger as the run found it: exists is what
                    \* os.path.exists answered (line 240), rows the rows on disk
                    \* then and, from line 261 on, the rows the run read
    d_files0,       \* by run: the image files as the run found them
    d_start,        \* by run: start_index
    d_attempted,    \* by run: the loop indices whose getmap was called, in order
    d_rows,         \* by run: the rows the run has passed to writerow, in order
    d_failed,       \* by run: the indices whose fetch or decode failed
    d_decoded,      \* by run: the indices whose fetch and decode succeeded
    d_area_failed,  \* by run: the indices saved whose area computation failed
    d_alone,        \* by run: no other run was under way when the run started
    p_pc,           \* preview_tiles, by call: "idle", "loop", "returned", "error",
                    \* "crashed"
    p_bounds,       \* preview_tiles, by call: bounds
    p_attempted,    \* by call: the positions whose getmap was called
    p_ok,           \* by call: the positions fetched, decoded and saved
    p_looked,       \* by call: the positions the mosaic loops have looked up
    mosaic,         \* by call: the image files laid on the mosaic
    h_pc,           \* a call of a helper alone: "idle", "ready", "done"
    h_args,         \* the arguments of the call
    h_value,        \* what the call returned
    runs, previews, anomalies

fs_vars == <<csv_exists, csv_rows, csv_buf, dirs, files>>
d_vars == <<d_pc, d_i, d_bounds, d_result, d_contacted, d_csv0, d_files0, d_start,
            d_attempted, d_rows, d_failed, d_decoded, d_area_failed, d_alone>>
p_vars == <<p_pc, p_bounds, p_attempted, p_ok, p_looked, mosaic>>
h_vars == <<h_pc, h_args, h_value>>
vars == <<fs_vars, d_vars, p_vars, h_vars, runs, previews, anomalies>>

B2N(b) == IF b THEN 1 ELSE 0

\* the non-nominal inputs of a set-up
SetupCost(connect_ok, bbox_str, width, height) ==
    B2N(~connect_ok) + B2N(bbox_str # GoodBBox) + B2N(width = <<>>) + B2N(height = <<>>)

\* the behaviour has drawn fewer than limit non-nominal inputs and outcomes, or
\* the step draws none
Affordable(cost, limit) == anomalies + cost <= limit

NoBounds == <<0, 0, 0, 0>>

\* the calls of download_tiles of a behaviour, numbered as they start
Runs == 1..MaxRuns

\* the calls of preview_tiles of a behaviour, numbered as they start
Calls == 1..MaxPreviews

InitProcs ==
    /\ csv_buf = [r \in Runs |-> <<>>]
    /\ d_pc = [r \in Runs |-> "idle"] /\ d_i = [r \in Runs |-> 0]
    /\ d_bounds = [r \in Runs |-> NoBounds] /\ d_result = [r \in Runs |-> ""]
    /\ d_contacted = [r \in Runs |-> FALSE]
    /\ d_csv0 = [r \in Runs |-> [exists |-> FALSE, rows |-> <<>>]]
    /\ d_files0 = [r \in Runs |-> {}]
    /\ d_start = [r \in Runs |-> 0]
    /\ d_attempted = [r \in Runs |-> <<>>] /\ d_rows = [r \in Runs |-> <<>>]
    /\ d_failed = [r \in Runs |-> {}] /\ d_decoded = [r \in Runs |-> {}]
    /\ d_area_failed = [r \in Runs |-> {}]
    /\ d_alone = [r \in Runs |-> TRUE]
    /\ p_pc = [c \in Calls |-> "idle"] /\ p_bounds = [c \in Calls |-> NoBounds]
    /\ p_attempted = [c \in Calls |-> {}]
    /\ p_ok = [c \in Calls |-> {}] /\ mosaic = [c \in Calls |-> {}]
    /\ p_looked = [c \in Calls |-> {}]
    /\ runs = 0 /\ previews = 0 /\ anomalies = 0

\* no helper is called alone
NoCall == h_pc = "idle" /\ h_args = <<>> /\ h_value = <<>>

\* no output of an earlier run
Init ==
    /\ csv_exists = FALSE /\ csv_rows = <<>>
    /\ dirs = {} /\ files = {}
    /\ InitProcs
    /\ NoCall

(***************************************************************************)
(* Output of an earlier session: a ledger of the tiles 0..k-1 with their   *)
(* image files, whole or with its last row cut short, or a file of one     *)
(* short row, or a file whose last row is no data row.                     *)
(***************************************************************************)
GoodBounds == ParseBBox(GoodBBox).vals

PrefixLedger(k) ==
    <<Header>> \o [j \in 1..k |-> LedgerRow(j - 1, GoodBounds, FloatStr(Fin(1)))]

PrefixFiles(k) == { ImgPath(TileX(i), TileY(i)) : i \in 0..(k - 1) }

\* the ledger with its last row cut to n fields
CutLast(rows, n) ==
    [j \in 1..Len(rows) |-> IF j = Len(rows) THEN SubSeq(rows[j], 1, n) ELSE rows[j]]

\* the ledger whose last row is of a tile whose area computation failed
EmptyAreaLast(rows) ==
    [j \in 1..Len(rows) |->
        IF j = Len(rows) THEN SubSeq(rows[j], 1, 12) \o <<"">> ELSE rows[j]]

CutLengths == {0, 10, 11, 12}
CutLedgers == {1, 6}

ExistingOutputs ==
    { [rows |-> PrefixLedger(k), files |-> PrefixFiles(k)] : k \in 0..total_tiles }
    \cup { [rows |-> CutLast(PrefixLedger(k), n), files |-> PrefixFiles(k)] :
             k \in CutLedgers, n \in CutLengths }
    \cup { [rows |-> EmptyAreaLast(PrefixLedger(k)), files |-> PrefixFiles(k)] :
             k \in CutLedgers }
    \cup { [rows |-> CutLast(PrefixLedger(0), 12), files |-> {}] }
    \cup { [rows |-> <<Header, Header>>, files |-> {}] }

InitExisting ==
    /\ csv_exists = TRUE
    /\ dirs = {DatasetDir}
    /\ \E o \in ExistingOutputs : csv_rows = o.rows /\ files = o.files
    /\ InitProcs
    /\ NoCall

(***************************************************************************)
(* download_tiles.  A run is a call of the function; nothing in the        *)
(* program keeps a call from starting while another is under way, and      *)
(* nothing makes the look-up of the ledger file (line 240), the open with  *)
(* mode "w" (line 241), the writing of the header (lines 242-259) and the  *)
(* reading of the last row (line 261) one step: each is a step of its own.  A step stands at the point where  *)
(* the run reads or writes what the calls share: the answer of             *)
(* os.path.exists, the open with mode "w", the write of the header when    *)
(* the with block closes the file, the read of the rows, the save of the   *)
(* image file and the write of the buffer at close().  What comes   *)
(* before it in the step is local to the run, or is makedirs, which gives  *)
(* the same directory in any order.                                        *)
(***************************************************************************)
\* where a run under way is: past the look-up of the ledger file, not yet over
UnderWay == {"create", "header", "resume", "loop"}

\* lines 217-240: the set-up of run r, up to the answer of os.path.exists
DownloadStart(r, connect_ok, bbox_str, width, height) ==
    LET cost == SetupCost(connect_ok, bbox_str, width, height)
        box == ParseBBox(bbox_str)
    IN
    /\ r \in Runs
    /\ r = runs + 1
    /\ d_pc[r] = "idle"
    /\ runs' = runs + 1
    /\ anomalies' = anomalies + cost
    /\ d_contacted' = [d_contacted EXCEPT ![r] = TRUE]
    /\ d_files0' = [d_files0 EXCEPT ![r] = files]
    /\ d_alone' = [d_alone EXCEPT ![r] = \A n \in Runs : d_pc[n] \notin UnderWay]
    /\ IF ~connect_ok
       THEN /\ d_pc' = [d_pc EXCEPT ![r] = "error"]
            /\ d_result' = [d_result EXCEPT ![r] = "connect"]
            /\ UNCHANGED <<d_bounds, d_csv0, dirs>>
       ELSE IF ~box.ok
       THEN /\ d_pc' = [d_pc EXCEPT ![r] = "error"]
            /\ d_result' = [d_result EXCEPT ![r] = "bbox"]
            /\ UNCHANGED <<d_bounds, d_csv0, dirs>>
       ELSE IF ~SizeOk(width, height)
       THEN /\ d_pc' = [d_pc EXCEPT ![r] = "crashed"]
            /\ d_result' = [d_result EXCEPT ![r] = "TypeError"]
            /\ UNCHANGED <<d_bounds, d_csv0, dirs>>
       ELSE /\ dirs' = dirs \cup {DatasetDir}
            /\ d_bounds' = [d_bounds EXCEPT ![r] = box.vals]
            /\ d_csv0' = [d_csv0 EXCEPT ![r] = [exists |-> csv_exists, rows |-> csv_rows]]
            /\ d_pc' = [d_pc EXCEPT ![r] = IF csv_exists THEN "resume" ELSE "create"]
            /\ UNCHANGED d_result
    /\ UNCHANGED <<csv_exists, csv_rows, csv_buf, files>>
    /\ UNCHANGED <<d_i, d_start, d_attempted, d_rows, d_failed, d_decoded,
                   d_area_failed>>
    /\ UNCHANGED <<p_vars, h_vars>>
    /\ UNCHANGED previews

\* line 241: os.path.exists answered that there is no ledger file: run r
\* opens the file with mode "w", which creates it, or empties the file that
\* has come to exist since
DownloadCreate(r) ==
    /\ r \in Runs
    /\ d_pc[r] = "create"
    /\ csv_exists' = TRUE
    /\ csv_rows' = <<>>
    /\ d_pc' = [d_pc EXCEPT ![r] = "header"]
    /\ UNCHANGED <<csv_buf, dirs, files>>
    /\ UNCHANGED <<d_i, d_bounds, d_result, d_contacted, d_csv0, d_files0, d_start,
                   d_attempted, d_rows, d_failed, d_decoded, d_area_failed, d_alone>>
    /\ UNCHANGED <<p_vars, h_vars>>
    /\ UNCHANGED <<runs, previews, anomalies>>

\* lines 242-259: writerow puts the header in the buffer of the file and the
\* end of the with block writes it: at offset 0, where the open left the
\* position of the file, over what other runs have appended since
DownloadHeader(r) ==
    /\ r \in Runs
    /\ d_pc[r] = "header"
    /\ csv_rows' = WriteAtStart(csv_rows, Header)
    /\ d_pc' = [d_pc EXCEPT ![r] = "resume"]
    /\ UNCHANGED <<csv_exists, csv_buf, dirs, files>>
    /\ UNCHANGED <<d_i, d_bounds, d_result, d_contacted, d_csv0, d_files0, d_start,
                   d_attempted, d_rows, d_failed, d_decoded, d_area_failed, d_alone>>
    /\ UNCHANGED <<p_vars, h_vars>>
    /\ UNCHANGED <<runs, previews, anomalies>>

\* lines 261-269: run r reads the last row of the ledger, opens the file for
\* appending and computes start_index
DownloadResume(r) ==
    LET last == get_last_xy_from_csv(csv_exists, csv_rows)
    IN
    /\ r \in Runs
    /\ d_pc[r] = "resume"
    /\ d_csv0' = [d_csv0 EXCEPT ![r].rows = csv_rows]
    /\ IF last.err # "none"
       THEN /\ d_pc' = [d_pc EXCEPT ![r] = "crashed"]
            /\ d_result' = [d_result EXCEPT ![r] = last.err]
            /\ UNCHANGED <<d_i, d_start>>
       ELSE /\ d_pc' = [d_pc EXCEPT ![r] = "loop"]
            /\ d_i' = [d_i EXCEPT ![r] = StartIndex(last)]
            /\ d_start' = [d_start EXCEPT ![r] = StartIndex(last)]
            /\ UNCHANGED d_result
    /\ UNCHANGED fs_vars
    /\ UNCHANGED <<d_bounds, d_contacted, d_files0, d_attempted, d_rows, d_failed,
                   d_decoded, d_area_failed, d_alone>>
    /\ UNCHANGED <<p_vars, h_vars>>
    /\ UNCHANGED <<runs, previews, anomalies>>

TileOutcomes == {"ok", "fetch_error", "decode_error", "save_error"}

\* a loop that stays at its index
NextIndexSame(i) == i

\* line 271: for i in range(start_index, num_tiles)
NextIndex(i) == i + 1

\* the non-nominal outcomes of an iteration
TileCost(outcome, area) == B2N(outcome # "ok" \/ area # Fin(1))

\* lines 271-320: one iteration of the loop of run r
DownloadTile(r, outcome, area) ==
    LET cost == TileCost(outcome, area)
        i == d_i[r]
        res == calculate_area(area)
        row == LedgerRow(i, d_bounds[r], AreaField(res))
    IN
    /\ r \in Runs
    /\ d_pc[r] = "loop"
    /\ i < total_tiles
    /\ outcome # "ok" => area = Fin(1)
    /\ anomalies' = anomalies + cost
    /\ d_attempted' = [d_attempted EXCEPT ![r] = Append(@, i)]
    /\ CASE outcome \in {"fetch_error", "decode_error"} ->
              \* continue
              /\ d_failed' = [d_failed EXCEPT ![r] = @ \cup {i}]
              /\ d_i' = [d_i EXCEPT ![r] = NextIndex(i)]
              /\ UNCHANGED <<d_pc, d_result, d_decoded, d_area_failed, d_rows>>
              /\ UNCHANGED fs_vars
         [] outcome = "save_error" ->
              \* the exception leaves download_tiles before csv_file.close():
              \* the file object stays open, with its buffer, as long as the
              \* traceback of the exception holds the frame
              /\ d_pc' = [d_pc EXCEPT ![r] = "crashed"]
              /\ d_result' = [d_result EXCEPT ![r] = "save"]
              /\ d_decoded' = [d_decoded EXCEPT ![r] = @ \cup {i}]
              /\ UNCHANGED <<d_i, d_failed, d_area_failed, d_rows>>
              /\ UNCHANGED fs_vars
         [] outcome = "ok" ->
              /\ d_decoded' = [d_decoded EXCEPT ![r] = @ \cup {i}]
              /\ files' = files \cup {ImgPath(TileX(i), TileY(i))}
              /\ d_area_failed' = [d_area_failed EXCEPT ![r] =
                                     IF res.ok THEN @ ELSE @ \cup {i}]
              /\ csv_buf' = [csv_buf EXCEPT ![r] = Append(@, row)]
              /\ d_rows' = [d_rows EXCEPT ![r] = Append(@, row)]
              /\ d_i' = [d_i EXCEPT ![r] = NextIndex(i)]
              /\ UNCHANGED <<d_pc, d_result, d_failed>>
              /\ UNCHANGED <<csv_exists, csv_rows, dirs>>
    /\ UNCHANGED <<d_bounds, d_contacted, d_csv0, d_files0, d_start, d_alone>>
    /\ UNCHANGED <<p_vars, h_vars>>
    /\ UNCHANGED <<runs, previews>>

\* line 321: the loop of run r is over, csv_file.close() writes the buffer at
\* the end of the file
DownloadClose(r) ==
    /\ r \in Runs
    /\ d_pc[r] = "loop"
    /\ d_i[r] >= total_tiles
    /\ d_pc' = [d_pc EXCEPT ![r] = "returned"]
    /\ csv_rows' = csv_rows \o csv_buf[r]
    /\ csv_buf' = [csv_buf EXCEPT ![r] = <<>>]
    /\ UNCHANGED <<csv_exists, dirs, files>>
    /\ UNCHANGED <<d_i, d_bounds, d_result, d_contacted, d_csv0, d_files0, d_start,
                   d_attempted, d_rows, d_failed, d_decoded, d_area_failed, d_alone>>
    /\ UNCHANGED <<p_vars, h_vars>>
    /\ UNCHANGED <<runs, previews, anomalies>>

\* the csv_file object that run r left open is collected when the last
\* reference to the traceback of its exception goes: its buffer is written at
\* the end of the ledger file, which it opened for appending (line 262)
CollectFile(r) ==
    /\ r \in Runs
    /\ d_pc[r] = "crashed" /\ d_result[r] = "save"
    /\ csv_buf[r] # <<>>
    /\ csv_rows' = csv_rows \o csv_buf[r]
    /\ csv_buf' = [csv_buf EXCEPT ![r] = <<>>]
    /\ UNCHANGED <<csv_exists, dirs, files>>
    /\ UNCHANGED <<d_vars, p_vars, h_vars>>
    /\ UNCHANGED <<runs, previews, anomalies>>

(***************************************************************************)
(* preview_tiles.  A call shares no state with a download run or with      *)
(* another call but the file system.  Its steps are the answers of the     *)
(* service it waits for: the connection, then each getmap; calls overlap   *)
(* one another and the steps of a download run.                            *)
(***************************************************************************)
Positions == 0..(num_preview_tiles * num_preview_tiles - 1)

\* the tile of position pos = x * 3 + y of the loops over x and y
PreviewTileX(pos) == center_x + ((pos \div num_preview_tiles) - 1)
PreviewTileY(pos) == center_y + ((pos % num_preview_tiles) - 1)

PreviewFile(pos) == PreviewPath(PreviewTileX(pos), PreviewTileY(pos))

\* the runs under way
RunsUnderWay == { r \in Runs : d_pc[r] \in UnderWay }

\* the preview calls under way: in their loops
CallsUnderWay == { c \in Calls : p_pc[c] = "loop" }

\* the calls under way: download runs and preview calls
InFlight == Cardinality(RunsUnderWay) + Cardinality(CallsUnderWay)

\* at most limit calls are under way after the step
Overlap(limit) == InFlight' <= limit

\* the number the call of download_tiles that starts next gets
NextRun == {runs + 1} \cap Runs

\* the number the call of preview_tiles that starts next gets
NextCall == {previews + 1} \cap Calls

\* the position of the loops of call c: the loops go through 0, 1, ..., 8
PreviewPos(c) == Cardinality(p_attempted[c])

\* lines 137-162: the set-up of call c, up to the loops
PreviewStart(c, connect_ok, bbox_str, width, height) ==
    LET box == ParseBBox(bbox_str)
    IN
    /\ c = previews + 1
    /\ p_pc[c] = "idle"
    /\ previews' = previews + 1
    /\ anomalies' = anomalies + SetupCost(connect_ok, bbox_str, width, height)
    /\ p_attempted' = [p_attempted EXCEPT ![c] = {}]
    /\ p_ok' = [p_ok EXCEPT ![c] = {}]
    /\ p_looked' = [p_looked EXCEPT ![c] = {}]
    /\ mosaic' = [mosaic EXCEPT ![c] = {}]
    /\ IF ~connect_ok \/ ~box.ok
       THEN /\ p_pc' = [p_pc EXCEPT ![c] = "error"]
            /\ UNCHANGED <<p_bounds, dirs>>
       ELSE IF ~SizeOk(width, height)
       THEN /\ p_pc' = [p_pc EXCEPT ![c] = "crashed"]
            /\ UNCHANGED <<p_bounds, dirs>>
       ELSE /\ p_pc' = [p_pc EXCEPT ![c] = "loop"]
            /\ p_bounds' = [p_bounds EXCEPT ![c] = box.vals]
            /\ dirs' = dirs \cup {PreviewDir}
    /\ UNCHANGED <<csv_exists, csv_rows, csv_buf, files>>
    /\ UNCHANGED <<d_vars, h_vars>>
    /\ UNCHANGED runs

PreviewOutcomes == {"ok", "fetch_error", "decode_error", "save_error"}

PreviewCost(outcome) == B2N(outcome # "ok")

\* lines 163-187: one iteration of the loops of call c
PreviewTile(c, outcome) ==
    LET pos == PreviewPos(c)
    IN
    /\ c \in Calls
    /\ p_pc[c] = "loop"
    /\ pos < num_preview_tiles * num_preview_tiles
    /\ anomalies' = anomalies + PreviewCost(outcome)
    /\ p_attempted' = [p_attempted EXCEPT ![c] = @ \cup {pos}]
    /\ CASE outcome \in {"fetch_error", "decode_error"} ->
              \* continue
              /\ UNCHANGED <<p_pc, p_ok, files>>
         [] outcome = "save_error" ->
              \* line 187 is in no try: the exception leaves preview_tiles
              /\ p_pc' = [p_pc EXCEPT ![c] = "crashed"]
              /\ UNCHANGED <<p_ok, files>>
         [] outcome = "ok" ->
              /\ files' = files \cup {PreviewFile(pos)}
              /\ p_ok' = [p_ok EXCEPT ![c] = @ \cup {pos}]
              /\ UNCHANGED p_pc
    /\ UNCHANGED <<p_bounds, p_looked, mosaic>>
    /\ UNCHANGED <<csv_exists, csv_rows, csv_buf, dirs>>
    /\ UNCHANGED <<d_vars, h_vars>>
    /\ UNCHANGED <<runs, previews>>

\* the position of the mosaic loops of call c: they go through 0, 1, ..., 8
MosaicPos(c) == Cardinality(p_looked[c])

\* lines 192-206: one iteration of the mosaic loops of call c, after the
\* download loops: os.path.exists of the tile file of the position, and the
\* overlay of the file when it exists
PreviewLookup(c) ==
    LET pos == MosaicPos(c)
    IN
    /\ c \in Calls
    /\ p_pc[c] = "loop"
    /\ PreviewPos(c) >= num_preview_tiles * num_preview_tiles
    /\ pos < num_preview_tiles * num_preview_tiles
    /\ p_looked' = [p_looked EXCEPT ![c] = @ \cup {pos}]
    /\ mosaic' = [mosaic EXCEPT ![c] =
                     IF PreviewFile(pos) \in files THEN @ \cup {PreviewFile(pos)} ELSE @]
    /\ UNCHANGED <<p_pc, p_bounds, p_attempted, p_ok>>
    /\ UNCHANGED fs_vars
    /\ UNCHANGED <<d_vars, h_vars>>
    /\ UNCHANGED <<runs, previews, anomalies>>

\* line 207: the mosaic loops are over, call c returns its mosaic
PreviewReturn(c) ==
    /\ c \in Calls
    /\ p_pc[c] = "loop"
    /\ MosaicPos(c) >= num_preview_tiles * num_preview_tiles
    /\ p_pc' = [p_pc EXCEPT ![c] = "returned"]
    /\ UNCHANGED <<p_bounds, p_attempted, p_ok, p_looked, mosaic>>
    /\ UNCHANGED fs_vars
    /\ UNCHANGED <<d_vars, h_vars>>
    /\ UNCHANGED <<runs, previews, anomalies>>

(***************************************************************************)
(* The specification: the two callbacks, started any number of times with  *)
(* any inputs and outcomes, the steps of the calls between one another.    *)
(***************************************************************************)
Next ==
    \/ /\ runs < MaxRunsShort
       /\ \E r \in NextRun, c \in BOOLEAN, b \in BBoxInputs, w \in SizeInputs,
                h \in SizeInputs :
             /\ Affordable(SetupCost(c, b, w, h), MaxAnomalies)
             /\ DownloadStart(r, c, b, w, h)
             /\ Overlap(MaxInFlight)
    \/ \E r \in RunsUnderWay : DownloadCreate(r)
    \/ \E r \in RunsUnderWay : DownloadHeader(r)
    \/ \E r \in RunsUnderWay : DownloadResume(r)
    \/ \E r \in RunsUnderWay, o \in TileOutcomes, a \in AreaValues :
          Affordable(TileCost(o, a), MaxAnomalies) /\ DownloadTile(r, o, a)
    \/ \E r \in RunsUnderWay : DownloadClose(r)
    \/ \E r \in Runs : CollectFile(r)
    \/ \E n \in NextCall, c \in BOOLEAN, b \in BBoxInputs, w \in SizeInputs,
             h \in SizeInputs :
          /\ Affordable(SetupCost(c, b, w, h), MaxAnomalies)
          /\ PreviewStart(n, c, b, w, h)
          /\ Overlap(MaxInFlight)
    \/ \E n \in CallsUnderWay, o \in PreviewOutcomes :
          Affordable(PreviewCost(o), MaxAnomalies) /\ PreviewTile(n, o)
    \/ \E n \in CallsUnderWay : PreviewLookup(n)
    \/ \E n \in CallsUnderWay : PreviewReturn(n)

Spec == Init /\ [][Next]_vars

(***************************************************************************)
(* Preview calls alone, with more failures in them.                        *)
(***************************************************************************)
NextPreview ==
    \/ \E n \in NextCall, c \in BOOLEAN, b \in BBoxInputs, w \in SizeInputs,
             h \in SizeInputs :
          /\ Affordable(SetupCost(c, b, w, h), MaxPreviewFaults)
          /\ PreviewStart(n, c, b, w, h)
    \/ \E n \in CallsUnderWay, o \in PreviewOutcomes :
          Affordable(PreviewCost(o), MaxPreviewFaults) /\ PreviewTile(n, o)
    \/ \E n \in CallsUnderWay : PreviewLookup(n)
    \/ \E n \in CallsUnderWay : PreviewReturn(n)

SpecPreview == Init /\ [][NextPreview]_vars

(***************************************************************************)
(* Download runs alone, from no output or from the output of an earlier    *)
(* session: the button is pressed at any time, also while a run is under   *)
(* way, and the steps of the runs under way come in any order.             *)
(***************************************************************************)
NextDownload ==
    \/ /\ runs < MaxOverlapRuns
       /\ \E r \in NextRun, c \in BOOLEAN, b \in BBoxInputs, w \in SizeInputs,
                h \in SizeInputs :
             /\ Affordable(SetupCost(c, b, w, h), MaxFaults)
             /\ DownloadStart(r, c, b, w, h)
    \/ \E r \in RunsUnderWay : DownloadCreate(r)
    \/ \E r \in RunsUnderWay : DownloadHeader(r)
    \/ \E r \in RunsUnderWay : DownloadResume(r)
    \/ \E r \in RunsUnderWay, o \in TileOutcomes, a \in AreaValues :
          Affordable(TileCost(o, a), MaxFaults) /\ DownloadTile(r, o, a)
    \/ \E r \in RunsUnderWay : DownloadClose(r)
    \/ \E r \in Runs : CollectFile(r)

InitDownload == Init \/ InitExisting

SpecDownload == InitDownload /\ [][NextDownload]_vars

\* more download runs, the first with no output of an earlier run
NextFresh ==
    \/ /\ Cardinality(RunsUnderWay) < MaxUnderWay
       /\ \E r \in NextRun, c \in BOOLEAN, b \in BBoxInputs, w \in SizeInputs,
                h \in SizeInputs :
             /\ Affordable(SetupCost(c, b, w, h), MaxFaults)
             /\ DownloadStart(r, c, b, w, h)
    \/ \E r \in RunsUnderWay : DownloadCreate(r)
    \/ \E r \in RunsUnderWay : DownloadHeader(r)
    \/ \E r \in RunsUnderWay : DownloadResume(r)
    \/ \E r \in RunsUnderWay, o \in TileOutcomes, a \in AreaValues :
          Affordable(TileCost(o, a), MaxFaults) /\ DownloadTile(r, o, a)
    \/ \E r \in RunsUnderWay : DownloadClose(r)
    \/ \E r \in Runs : CollectFile(r)

SpecFresh == Init /\ [][NextFresh]_vars

\* a download run with more failures in it
NextFaults ==
    \/ /\ runs < MaxRunsShort
       /\ \E r \in NextRun, c \in BOOLEAN, b \in BBoxInputs, w \in SizeInputs,
                h \in SizeInputs :
             /\ Affordable(SetupCost(c, b, w, h), MaxRunFaults)
             /\ DownloadStart(r, c, b, w, h)
    \/ \E r \in RunsUnderWay : DownloadCreate(r)
    \/ \E r \in RunsUnderWay : DownloadHeader(r)
    \/ \E r \in RunsUnderWay : DownloadResume(r)
    \/ \E r \in RunsUnderWay, o \in TileOutcomes, a \in AreaValues :
          Affordable(TileCost(o, a), MaxRunFaults) /\ DownloadTile(r, o, a)
    \/ \E r \in RunsUnderWay : DownloadClose(r)
    \/ \E r \in Runs : CollectFile(r)

SpecFaults == InitDownload /\ [][NextFaults]_vars

(***************************************************************************)
(* The helpers alone: one call of get_tile_bounds or of calculate_area     *)
(* with arguments of its own.  The extents divide evenly into 2^zoom tiles *)
(* up to zoom 5; the area is what polygon.Compute() returned.              *)
(***************************************************************************)
Extents == {<<-160, -80, 160, 80>>, <<0, 0, 64, 32>>, <<-32, -64, 96, 64>>}

TileBoundsArgs ==
    [fn : {"get_tile_bounds"}, x : 0..MaxTile, y : 0..MaxTile, zoom : 0..MaxZoom,
     bounds : Extents]

AreaInputs == {NaN, Inf(1), Inf(-1)} \cup { Fin(n) : n \in -MaxArea..MaxArea }

AreaArgs == [fn : {"calculate_area"}, area : AreaInputs]

InitHelpers ==
    /\ csv_exists = FALSE /\ csv_rows = <<>>
    /\ dirs = {} /\ files = {}
    /\ InitProcs
    /\ h_pc = "ready" /\ h_value = <<>>
    /\ h_args \in TileBoundsArgs \cup AreaArgs

\* lines 20-34
CallTileBounds ==
    /\ h_pc = "ready" /\ h_args.fn = "get_tile_bounds"
    /\ h_pc' = "done"
    /\ h_value' = get_tile_bounds(h_args.x, h_args.y, h_args.zoom, h_args.bounds)
    /\ UNCHANGED <<fs_vars, d_vars, p_vars, h_args, runs, previews, anomalies>>

\* lines 48-51: the check of the area and the return
CallArea ==
    /\ h_pc = "ready" /\ h_args.fn = "calculate_area"
    /\ h_pc' = "done"
    /\ h_value' = calculate_area(h_args.area)
    /\ UNCHANGED <<fs_vars, d_vars, p_vars, h_args, runs, previews, anomalies>>

NextHelpers ==
    \/ CallTileBounds
    \/ CallArea

SpecHelpers == InitHelpers /\ [][NextHelpers]_vars

(***************************************************************************)
(* Notions the properties use.                                             *)
(***************************************************************************)
Range(seq) == { seq[n] : n \in 1..Len(seq) }

IsPrefix(a, b) == Len(a) <= Len(b) /\ SubSeq(b, 1, Len(a)) = a

AllImgPaths == { ImgPath(TileX(i), TileY(i)) : i \in 0..(total_tiles - 1) }

\* the runs that have started
Started == 1..runs

\* the ledgers of the rows of the indices 0..k-1, by k
PrefixLedgers == [k \in 0..total_tiles |-> PrefixLedger(k)]

\* the runs came one after the other: each started when none was under way
OneAfterTheOther == \A r \in Started : d_alone[r]

\* run r got past its set-up: it reached the loop
InRun(r) ==
    d_pc[r] \in {"loop", "returned"} \/ (d_pc[r] = "crashed" /\ d_result[r] = "save")

\* run r is over, by the end of its loop or by an error of saving
RunOver(r) == d_pc[r] = "returned" \/ (d_pc[r] = "crashed" /\ d_result[r] = "save")

\* the rows run r has written to csv_file
RunRows(r) == d_rows[r]

\* the linear index column * 3 + row a data row records
RowIndex(row) == ParseInt(row[12]).v * 3 + ParseInt(row[11]).v

\* run r has written a row for loop index i
HasRunRow(r, i) ==
    \E n \in 1..Len(RunRows(r)) :
        /\ RunRows(r)[n][12] = IntStr(TileX(i))
        /\ RunRows(r)[n][11] = IntStr(TileY(i))

CountHeader(rows) == Cardinality({ n \in 1..Len(rows) : rows[n] = Header })

(***************************************************************************)
(* C1: starting with no ledger file, a run in which every fetch, decode    *)
(* and save succeeds ends with 9 data rows and 9 image files, one for each *)
(* cell of the 3x3 grid, each cell recorded exactly once.                  *)
(***************************************************************************)
C1_FullRunWritesNine ==
    \A r \in Started :
        (d_pc[r] = "returned" /\ ~d_csv0[r].exists /\ d_failed[r] = {}) =>
            /\ Len(csv_rows) = 1 + total_tiles
            /\ Cardinality(files \cap AllImgPaths) = total_tiles
            /\ \A i \in 0..(total_tiles - 1) :
                  Cardinality({ n \in 2..Len(csv_rows) :
                                  /\ csv_rows[n][12] = IntStr(TileX(i))
                                  /\ csv_rows[n][11] = IntStr(TileY(i)) }) = 1

(***************************************************************************)
(* C2: every tile whose fetch or decode failed in a run is attempted again *)
(* by the next run, the runs one after the other, also when a tile of a    *)
(* higher index was recorded after the failure.                            *)
(***************************************************************************)
C2_FailedTileRetried ==
    OneAfterTheOther =>
        \A r \in Started :
            (r > 1 /\ d_pc[r] = "returned")
                => d_failed[r - 1] \subseteq Range(d_attempted[r])

(***************************************************************************)
(* C3: for every k in 1..9, a run that finds the ledger of the rows of the *)
(* indices 0..k-1 makes its fetches at k, k+1, ... in that order: the      *)
(* first at k, none below k, none at all when k = 9.                       *)
(***************************************************************************)
C3_ResumeAtK ==
    \A r \in Started :
        (InRun(r) /\ d_csv0[r].exists) =>
            \A k \in 1..total_tiles :
                (Len(d_csv0[r].rows) = k + 1 /\ d_csv0[r].rows = PrefixLedgers[k]) =>
                    /\ d_start[r] = k
                    /\ \A n \in 1..Len(d_attempted[r]) : d_attempted[r][n] = k + n - 1
                    /\ k = total_tiles => d_attempted[r] = <<>>
                    /\ (k < total_tiles /\ RunOver(r)) => d_attempted[r] # <<>>

C3_Witness ==
    \E r \in Runs :
        /\ d_pc[r] = "returned" /\ d_csv0[r].exists /\ d_csv0[r].rows = PrefixLedger(4)
        /\ d_attempted[r] = <<4, 5, 6, 7, 8>>

(***************************************************************************)
(* C4: after a run in which every attempted tile succeeded, the next run,  *)
(* the runs one after the other, fetches nothing and leaves the ledger as  *)
(* it found it.                                                            *)
(***************************************************************************)
C4_SecondRunNoOp ==
    OneAfterTheOther =>
        \A r \in Started :
            (r > 1 /\ d_pc[r] # "idle" /\ d_pc[r - 1] = "returned"
               /\ d_failed[r - 1] = {}) =>
                /\ d_attempted[r] = <<>>
                /\ d_rows[r] = <<>>
                /\ csv_buf[r] = <<>>
                /\ csv_exists = d_csv0[r].exists

(***************************************************************************)
(* C5: when the fetch or the decode of index i fails, the run goes on: no  *)
(* row and no file is written for i, and every later index is attempted in *)
(* the same run and gets its row whenever its own fetch and decode         *)
(* succeed.                                                                *)
(***************************************************************************)
C5_FailureDoesNotAbort ==
    \A r \in Started :
        RunOver(r) =>
            \A i \in d_failed[r] :
                /\ ~HasRunRow(r, i)
                /\ ImgPath(TileX(i), TileY(i)) \in files
                      => ImgPath(TileX(i), TileY(i)) \in d_files0[r]
                /\ \A j \in (i + 1)..(total_tiles - 1) :
                      /\ j \in Range(d_attempted[r])
                      /\ j \in d_decoded[r] => HasRunRow(r, j)

(***************************************************************************)
(* C6: when the area computation fails for a tile that was fetched,        *)
(* decoded and saved, the run writes the row of the tile with an empty     *)
(* area field and every other field filled, and the resume position of a   *)
(* ledger that ends with this row is the index after the tile.  A run that *)
(* finds a ledger ending with a row of empty area starts after that row.   *)
(***************************************************************************)
C6_AreaFailureStillRecorded ==
    \A r \in Started :
        /\ \A i \in d_area_failed[r] :
              \E n \in 1..Len(RunRows(r)) :
                  /\ RunRows(r)[n] = LedgerRow(i, d_bounds[r], "")
                  /\ Len(RunRows(r)[n]) = 13
                  /\ RunRows(r)[n][13] = ""
                  /\ \A f \in 1..12 : RunRows(r)[n][f] # ""
                  /\ StartIndex(get_last_xy_from_csv(TRUE, <<Header, RunRows(r)[n]>>))
                        = i + 1
        /\ (InRun(r) /\ d_csv0[r].exists /\ Len(d_csv0[r].rows) > 1
              /\ Len(d_csv0[r].rows[Len(d_csv0[r].rows)]) = 13
              /\ d_csv0[r].rows[Len(d_csv0[r].rows)][13] = "")
              => d_start[r] = RowIndex(d_csv0[r].rows[Len(d_csv0[r].rows)]) + 1

C6_Witness ==
    \E r \in Runs :
        /\ d_pc[r] = "returned" /\ d_area_failed[r] = {7}
        /\ d_start[r] = 6 /\ d_attempted[r] = <<6, 7, 8>>
        /\ d_csv0[r].exists /\ Len(d_csv0[r].rows) = 7
        /\ d_csv0[r].rows[7] = LedgerRow(5, GoodBounds, "")

(***************************************************************************)
(* C7: the ledger is only appended to.  The ledger a run found is a prefix *)
(* of the ledger at any later point, with as many header rows when it had  *)
(* a row; a run that found no ledger file leaves a file that begins with   *)
(* the one header; and no step of any run removes the file or changes,     *)
(* reorders or deletes a row that is on disk.                              *)
(***************************************************************************)
LedgerOfRunKept ==
    \A r \in Started :
        /\ (d_pc[r] # "idle" /\ d_csv0[r].exists) =>
              /\ csv_exists
              /\ IsPrefix(d_csv0[r].rows, csv_rows)
              /\ d_csv0[r].rows # <<>>
                    => CountHeader(csv_rows) = CountHeader(d_csv0[r].rows)
        /\ (InRun(r) /\ ~d_csv0[r].exists) =>
              /\ csv_exists
              /\ IsPrefix(<<Header>>, csv_rows)
              /\ CountHeader(csv_rows) = 1

AppendOnlyStep == csv_exists => (csv_exists' /\ IsPrefix(csv_rows, csv_rows'))

C7_LedgerAppendOnly == []LedgerOfRunKept /\ [][AppendOnlyStep]_vars

(***************************************************************************)
(* C8 as stated: when the last row of an existing ledger has fewer than 13 *)
(* fields, the run fails with an error of the ledger before any fetch and  *)
(* leaves the ledger unchanged.                                            *)
(***************************************************************************)
PastInputs(r) ==
    /\ d_pc[r] \notin {"idle", "create", "header", "resume"}
    /\ d_result[r] \notin {"connect", "bbox", "TypeError"}

LedgerRefused(r) ==
    /\ d_pc[r] = "crashed" /\ d_result[r] = "IndexError"
    /\ d_attempted[r] = <<>>
    /\ csv_buf[r] = <<>>
    /\ csv_exists /\ csv_rows = d_csv0[r].rows

C8_ShortRowRefused ==
    \A r \in Started :
        (PastInputs(r) /\ d_csv0[r].exists /\ Len(d_csv0[r].rows) >= 1
           /\ Len(d_csv0[r].rows[Len(d_csv0[r].rows)]) < 13)
           => LedgerRefused(r)

(***************************************************************************)
(* C8 amended: when an existing ledger has more than one row and its last  *)
(* row has fewer than 12 fields, the run fails with IndexError before any  *)
(* fetch and leaves the ledger unchanged.                                  *)
(***************************************************************************)
C8_ShortRowRefusedBelow12 ==
    \A r \in Started :
        (PastInputs(r) /\ d_csv0[r].exists /\ Len(d_csv0[r].rows) > 1
           /\ Len(d_csv0[r].rows[Len(d_csv0[r].rows)]) < 12)
           => LedgerRefused(r)

C8_Witness ==
    \E r \in Runs :
        /\ LedgerRefused(r)
        /\ Len(d_csv0[r].rows) = 7
        /\ Len(d_csv0[r].rows[7]) = 11

(***************************************************************************)
(* C9: the mosaic a preview call returns holds exactly the tiles fetched   *)
(* and decoded in that call.                                               *)
(***************************************************************************)
C9_MosaicOfThisCall ==
    \A c \in Calls :
        p_pc[c] = "returned" => mosaic[c] = { PreviewFile(pos) : pos \in p_ok[c] }

(***************************************************************************)
(* C10: a preview call leaves the ledger, the open ledger files, the files *)
(* and the directory of the download and the state of the download runs as *)
(* they are, so the resume position read from the ledger is the same with  *)
(* and without it; and a preview call that got past its set-up has, when   *)
(* it is over, attempted all 9 tiles, whatever the ledger holds.           *)
(***************************************************************************)
PreviewFrame ==
    p_vars' # p_vars =>
        /\ UNCHANGED <<csv_exists, csv_rows, csv_buf>>
        /\ UNCHANGED d_vars
        /\ files' \cap AllImgPaths = files \cap AllImgPaths
        /\ (DatasetDir \in dirs') = (DatasetDir \in dirs)
        /\ get_last_xy_from_csv(csv_exists', csv_rows')
              = get_last_xy_from_csv(csv_exists, csv_rows)

\* call c got past its set-up and is over: it returned, or left its loops by
\* an exception
PreviewOver(c) ==
    p_pc[c] = "returned" \/ (p_pc[c] = "crashed" /\ p_attempted[c] # {})

C10_PreviewLeavesLedger ==
    /\ [][PreviewFrame]_vars
    /\ [](\A c \in Calls : PreviewOver(c) => p_attempted[c] = Positions)

(***************************************************************************)
(* C11: a download run whose bounding box or image size is refused reports *)
(* the error before any I/O: the run has not contacted the tile service,   *)
(* has created no output directory and no ledger, and has fetched no tile. *)
(***************************************************************************)
InputRefused == runs' # runs /\ d_result'[runs'] \in {"bbox", "TypeError"}

ValidationBeforeIO ==
    InputRefused =>
        /\ ~d_contacted'[runs']
        /\ UNCHANGED <<csv_exists, csv_rows, dirs, files>>
        /\ csv_buf'[runs'] = <<>>
        /\ d_attempted'[runs'] = <<>>

C11_ValidationBeforeIO == [][ValidationBeforeIO]_vars

(***************************************************************************)
(* C12: the tiles get_tile_bounds returns share their edges exactly: the   *)
(* max-X of tile (c, r) is the min-X of tile (c+1, r), and the min-Y of    *)
(* tile (c, r) is the max-Y of tile (c, r+1), at every zoom and extent.    *)
(***************************************************************************)
TileBoundsDone == h_pc = "done" /\ h_args.fn = "get_tile_bounds"

C12_SharedEdges ==
    TileBoundsDone =>
        /\ h_value[3] = get_tile_bounds(h_args.x + 1, h_args.y, h_args.zoom,
                                        h_args.bounds)[1]
        /\ h_value[2] = get_tile_bounds(h_args.x, h_args.y + 1, h_args.zoom,
                                        h_args.bounds)[4]

C12_Witness ==
    /\ TileBoundsDone
    /\ h_args = [fn |-> "get_tile_bounds", x |-> 1, y |-> 2, zoom |-> 3,
                 bounds |-> <<-160, -80, 160, 80>>]
    /\ h_value = <<-120, 20, -80, 40>>

(***************************************************************************)
(* C13: when the row of a tile has been appended, the row is in the ledger *)
(* file on disk before the fetch of the next tile begins: between two      *)
(* tiles the disk holds a row for every tile the run completed.            *)
(***************************************************************************)
C13_RowOnDiskBeforeNextFetch ==
    \A r \in Started :
        d_pc[r] = "loop" =>
            /\ csv_buf[r] = <<>>
            /\ \A i \in d_decoded[r] :
                  \E n \in 2..Len(csv_rows) :
                      csv_rows[n][1] = ImgPath(TileX(i), TileY(i))

(***************************************************************************)
(* C14: no failure of a step of a tile (fetch, decode, save, area) crashes *)
(* a run that got past its set-up: the run ends by returning, having       *)
(* attempted every index from its start index through 8 and closed the     *)
(* ledger file.                                                            *)
(***************************************************************************)
C14_EveryIndexAttempted ==
    \A r \in Started :
        /\ InRun(r) => d_pc[r] # "crashed"
        /\ RunOver(r) =>
              /\ d_attempted[r] =
                    [n \in 1..(total_tiles - d_start[r]) |-> d_start[r] + n - 1]
              /\ csv_buf[r] = <<>>

(***************************************************************************)
(* C15: after any number of download runs one after the other, the first   *)
(* with no ledger, whatever failed in them, the linear indices column * 3  *)
(* + row of the data rows of the ledger are strictly increasing in file    *)
(* order: no tile is recorded twice, and the resume position read from the *)
(* ledger never decreases.                                                 *)
(***************************************************************************)
\* the ledger with the rows run r has written, when r is in its loop
LedgerText(r) == csv_rows \o (IF d_pc[r] = "loop" THEN csv_buf[r] ELSE <<>>)

IndicesIncreasing ==
    OneAfterTheOther =>
        \A r \in Started :
            \A m \in 2..Len(LedgerText(r)) : \A n \in (m + 1)..Len(LedgerText(r)) :
                RowIndex(LedgerText(r)[m]) < RowIndex(LedgerText(r)[n])

\* the start index a run would read from the ledger on disk
ResumePosition == StartIndex(get_last_xy_from_csv(csv_exists, csv_rows))

ResumeNotLower == OneAfterTheOther' => ResumePosition' >= ResumePosition

C15_IndicesIncreasing == []IndicesIncreasing /\ [][ResumeNotLower]_vars

(***************************************************************************)
(* C16: within one run the tiles are attempted in strictly increasing      *)
(* order of linear index, each at most once, and when the fetch of a tile  *)
(* begins the steps of every tile attempted before are over: the tile was  *)
(* given up at its fetch or decode, or its file is saved and its row       *)
(* written.                                                                *)
(***************************************************************************)
TileOver(r, i) ==
    \/ i \in d_failed[r] /\ i \notin d_decoded[r]
    \/ /\ i \in d_decoded[r] /\ i \notin d_failed[r]
       /\ ImgPath(TileX(i), TileY(i)) \in files
       /\ HasRunRow(r, i)

C16_OneTileAtATime ==
    \A r \in Started :
        /\ \A m \in 1..Len(d_attempted[r]) : \A n \in (m + 1)..Len(d_attempted[r]) :
              d_attempted[r][m] < d_attempted[r][n]
        /\ \A n \in 1..Len(d_attempted[r]) :
              d_attempted[r][n] \in d_start[r]..(total_tiles - 1)
        /\ d_pc[r] = "loop" =>
              /\ \A n \in 1..Len(d_attempted[r]) : d_attempted[r][n] < d_i[r]
              /\ \A n \in 1..Len(d_attempted[r]) : TileOver(r, d_attempted[r][n])

C16_Witness ==
    \E r \in Runs :
        /\ d_pc[r] = "loop" /\ d_i[r] = 6
        /\ d_attempted[r] = <<2, 3, 4, 5>>
        /\ d_failed[r] = {3} /\ Len(d_rows[r]) = 3

(***************************************************************************)
(* C17 as stated: the row written for linear index i records COL =         *)
(* (i div 3) - 1 and ROW = (i mod 3) - 1, the offsets in {-1,0,1} from the *)
(* centre of the grid, so the rows of the indices cover {-1,0,1} x         *)
(* {-1,0,1}.                                                               *)
(***************************************************************************)
\* run r has written the row of index j
Recorded(r, j) == j \in d_decoded[r] /\ ~(d_pc[r] = "crashed" /\ j = d_i[r])

\* the indices of the rows of run r, in the order of the rows
RecordedIndices(r) == SelectSeq(d_attempted[r], LAMBDA j : Recorded(r, j))

C17_RowRecordsOffsets ==
    \A r \in Started :
        InRun(r) =>
            LET recorded == RecordedIndices(r)
            IN
            /\ Len(RunRows(r)) = Len(recorded)
            /\ \A n \in 1..Len(RunRows(r)) :
                  /\ RunRows(r)[n][12] = IntStr((recorded[n] \div 3) - 1)
                  /\ RunRows(r)[n][11] = IntStr((recorded[n] % 3) - 1)

(***************************************************************************)
(* C17 amended: the row written for linear index i records COL = i div 3   *)
(* and ROW = i mod 3, the centre (1, 1) plus the offsets in {-1,0,1}: the  *)
(* values are in {0,1,2}, and the rows of the indices 0..8 cover {0,1,2} x *)
(* {0,1,2}, each cell once.                                                *)
(***************************************************************************)
\* each cell of {0,1,2} x {0,1,2} is the cell of one linear index of 0..8
GridCellsCovered ==
    \A c \in 0..2, w \in 0..2 :
        Cardinality({ i \in 0..(total_tiles - 1) : TileX(i) = c /\ TileY(i) = w }) = 1

C17_RowRecordsGridCell ==
    /\ \A r \in Started :
          InRun(r) =>
              LET recorded == RecordedIndices(r)
              IN
              /\ Len(RunRows(r)) = Len(recorded)
              /\ \A n \in 1..Len(RunRows(r)) :
                    /\ RunRows(r)[n][12] = IntStr(recorded[n] \div 3)
                    /\ RunRows(r)[n][11] = IntStr(recorded[n] % 3)
                    /\ RunRows(r)[n][12] \in {"0", "1", "2"}
                    /\ RunRows(r)[n][11] \in {"0", "1", "2"}
    /\ GridCellsCovered

C17_Witness ==
    \E r \in Runs :
        /\ d_pc[r] = "returned" /\ d_attempted[r] = <<1, 2, 3, 4, 5, 6, 7, 8>>
        /\ Len(RunRows(r)) = 8
        /\ RunRows(r)[1][12] = "0" /\ RunRows(r)[1][11] = "1"
        /\ RunRows(r)[8][12] = "2" /\ RunRows(r)[8][11] = "2"

(***************************************************************************)
(* C18: calculate_area returns only a finite value greater than 0: when    *)
(* the area of the polygon is NaN, infinite, zero or negative the call     *)
(* fails with an error.                                                    *)
(***************************************************************************)
AreaDone == h_pc = "done" /\ h_args.fn = "calculate_area"

PositiveFinite(f) == f.cls = "fin" /\ f.v > 0

C18_AreaPositiveFinite ==
    AreaDone =>
        /\ h_value.ok => PositiveFinite(h_value.area)
        /\ ~PositiveFinite(h_args.area) => ~h_value.ok

(***************************************************************************)
(* C19: at every point of a download run, each data row the run has        *)
(* appended names an image file that exists: the file is saved before the  *)
(* row is written, and no step appends a row without its file.  A file may *)
(* exist without a row.                                                    *)
(***************************************************************************)
RowsHaveFiles ==
    \A r \in Started :
        InRun(r) => \A n \in 1..Len(RunRows(r)) : RunRows(r)[n][1] \in files

\* the step of run r writes a row to csv_file
RowAppended(r) == d_pc[r] = "loop" /\ Len(d_rows'[r]) > Len(d_rows[r])

FileBeforeRow ==
    \A r \in Started :
        RowAppended(r) =>
            /\ d_rows'[r][Len(d_rows'[r])][1] \in files'
            /\ csv_buf'[r] = Append(csv_buf[r], d_rows'[r][Len(d_rows'[r])])

C19_RowNamesSavedFile == []RowsHaveFiles /\ [][FileBeforeRow]_vars

C19_Witness ==
    \E r \in Runs :
        /\ d_pc[r] = "loop" /\ d_start[r] = 1 /\ d_i[r] = 7
        /\ d_failed[r] = {2}
        /\ Len(RunRows(r)) = 5
        /\ \A n \in 1..5 : RunRows(r)[n][1] \in files \ d_files0[r]

====
